---------------------------- MODULE Spec2Model ----------------------------
(***************************************************************************)
(* The binary resolver of the cem Zed extension                            *)
(* (extensions/zed/src/lib.rs): CemExtension::language_server_command and  *)
(* CemExtension::language_server_binary, together with the host calls they *)
(* make (worktree.which, fs::metadata, latest_github_release,              *)
(* current_platform, download_file, make_file_executable,                  *)
(* set_language_server_installation_status).                               *)
(*                                                                         *)
(* One resolver instance lives for the whole behaviour.  The host calls    *)
(* language_server_command sequentially; between two calls the file system *)
(* and the search path may change under the resolver's feet.               *)
(***************************************************************************)
EXTENDS Naturals, Sequences, FiniteSets

(***************************************************************************)
(* Bounds of the model.                                                    *)
(***************************************************************************)
\* Longest asset list a release carries in the model.
MaxAssets == 2

(***************************************************************************)
(* Values.                                                                 *)
(***************************************************************************)
\* Option::None of cached_binary_path and of worktree.which.
None == "None"

\* zed::Os and zed::Architecture, the closed enums current_platform returns.
Os == {"Mac", "Linux", "Windows"}
Architecture == {"Aarch64", "X8664", "X86"}

\* Version strings of the releases the upstream project may publish.
Versions == {"v1.2.3", "v1.3.0"}

\* The repository literal of the release query.
Repo == "bennypowers/cem"

\* The binary's name on the search path, and where the host finds it.
ToolName == "cem"
HostPath == "/usr/local/bin/" \o ToolName

\* Errors the collaborators may report.
ReleaseErr == "github api: rate limited"
DownloadErr == "connection reset"
ChmodErr == "permission denied"

\* An asset of a release: a name and a download URL.  Names are unique
\* within a release.
Asset(n) == [name |-> n, download_url |-> "https://dl/" \o n]

\* The asset list of the upstream project's releases.
ExampleAssets == << Asset("cem-darwin-arm64"), Asset("cem-linux-amd64") >>

\* What latest_github_release may answer: an error or a release.
Releases ==
    { [ok |-> FALSE, err |-> ReleaseErr] } \cup
    { [ok |-> TRUE, version |-> v, assets |-> ExampleAssets] : v \in Versions }

\* One asset for every operating system and architecture name, and a
\* checksum file whose name starts with the name of an asset.
PlatformAssetPool ==
    { Asset("cem-" \o o \o "-" \o a) :
        o \in {"darwin", "linux", "windows"}, a \in {"arm64", "amd64"} }
    \cup { Asset("cem-linux-amd64.sha256") }

\* Non-empty asset lists without repetition (require_assets is true).
AssetLists ==
    { s \in UNION { [1..n -> PlatformAssetPool] : n \in 1..MaxAssets } :
        \A i, j \in 1..Len(s) : i # j => s[i] # s[j] }

\* Releases that carry any such list.
PlatformReleases ==
    { [ok |-> FALSE, err |-> ReleaseErr] } \cup
    { [ok |-> TRUE, version |-> "v1.2.3", assets |-> a] : a \in AssetLists }

(***************************************************************************)
(* Pure parts of language_server_binary.                                   *)
(***************************************************************************)
\* lib.rs:65-69
OsName(os) ==
    CASE os = "Mac" -> "darwin"
      [] os = "Linux" -> "linux"
      [] os = "Windows" -> "windows"

\* ArchName with 32-bit x86 given a name of its own.
ArchName_X86Distinct(arch) ==
    CASE arch = "Aarch64" -> "arm64"
      [] arch = "X8664" -> "amd64"
      [] arch = "X86" -> "x86"

\* lib.rs:70-74
ArchName(arch) ==
    CASE arch = "Aarch64" -> "arm64"
      [] arch = "X8664" -> "amd64"
      [] arch = "X86" -> "amd64"

\* lib.rs:63-75: format!("cem-{os}-{arch}")
AssetNameOf(os, arch) == "cem-" \o OsName(os) \o "-" \o ArchName(arch)

\* FindAsset falling back to the first asset when no name matches.
FindAsset_FirstOnMiss(assets, asset_name) ==
    LET hits == { i \in 1..Len(assets) : assets[i].name = asset_name }
    IN  IF hits = {} THEN 1
        ELSE CHOOSE i \in hits : \A j \in hits : i <= j

\* lib.rs:77-80: release.assets.iter().find(|asset| asset.name == asset_name);
\* 0 when no asset matches, else the index of the first match.
FindAsset(assets, asset_name) ==
    LET hits == { i \in 1..Len(assets) : assets[i].name = asset_name }
    IN  IF hits = {} THEN 0
        ELSE CHOOSE i \in hits : \A j \in hits : i <= j

\* lib.rs:83: format!("cem-{}", release.version)
BinaryPathOf(version) == "cem-" \o version

\* The paths of the extension's working directory the resolver may write.
LocalPaths == { BinaryPathOf(v) : v \in Versions }
AllPaths == LocalPaths \cup {HostPath}

\* lib.rs:37: worktree.which("cem"): the path of the binary when one is
\* present on the search path.
Which(files) == IF files[HostPath] = "file" THEN HostPath ELSE None

\* IsFile testing for existence instead of for a regular file.
IsFile_Exists(files, path) == files[path] # "absent"

\* lib.rs:43: fs::metadata(path).map_or(false, |stat| stat.is_file())
IsFile(files, path) == files[path] = "file"

\* CacheValid with the test inverted, and without the stat.
CacheValid_Inverted(cached, files) == cached # None /\ files[cached] # "file"
CacheValid_NoStat(cached, files) == cached # None

\* lib.rs:42-43: the cached path is present and names a regular file.
CacheValid(cached, files) == cached # None /\ IsFile(files, cached)

(***************************************************************************)
(* Host calls, as recorded in the trace of one call.                       *)
(***************************************************************************)
EvStatus(s) == <<"set_language_server_installation_status", s>>
\* EvRelease asking for pre-releases as well.
EvRelease_PreRelease == <<"latest_github_release", Repo,
                          [require_assets |-> TRUE, pre_release |-> TRUE]>>

\* lib.rs:54-59
EvRelease == <<"latest_github_release", Repo,
               [require_assets |-> TRUE, pre_release |-> FALSE]>>
EvDownload(url, path) == <<"download_file", url, path, "Uncompressed">>
EvChmod(path) == <<"make_file_executable", path>>

Ok(path) == [ok |-> TRUE, value |-> path]
Err(msg) == [ok |-> FALSE, err |-> msg]

\* lib.rs:90-95: download_file writes the file or reports an error; it cannot
\* write a file where a directory stands.
DownloadOk(files, path, dl) == dl = "ok" /\ files[path] # "dir"

\* DownloadError passing the underlying message on without the prefix.
DownloadError_Unwrapped(e) == e

\* lib.rs:95: map_err(|e| format!("failed to download file: {e}"))
DownloadError(e) == "failed to download file: " \o e

\* lib.rs:90-94: the file system after a download that succeeded.
FilesAfterDownload(files, binary_path) == [files EXCEPT ![binary_path] = "file"]

\* CachedAfter never storing the path, and storing it before
\* make_file_executable has succeeded.
CachedAfter_Never(branch, cached, binary_path) == cached
CachedAfter_BeforeChmod(branch, cached, binary_path) ==
    IF branch \in {"fetched", "chmod_err"} THEN binary_path ELSE cached

\* CachedAfter dropping the entry when the fetch fails.
CachedAfter_ClearOnError(branch, cached, binary_path) ==
    IF branch = "fetched" THEN binary_path ELSE None

\* lib.rs:95-99: the cache is written only past the `?` of the download and
\* of make_file_executable, that is, when the fetch ends in "fetched".
CachedAfter(branch, cached, binary_path) ==
    IF branch = "fetched" THEN binary_path ELSE cached

\* lib.rs:48-100: the remote-fetch branch.  release, dl and chmod are the
\* answers of the collaborators in this call.
RemoteFetch(cached, files, os, arch, release, dl, chmod) ==
    LET asset_name == AssetNameOf(os, arch)
        e1 == <<EvStatus("CheckingForUpdate"), EvRelease>>
    IN  IF ~release.ok
        THEN [ret |-> Err(release.err), events |-> e1, cached |-> cached,
              files |-> files, branch |-> "release_err", release |-> release]
        ELSE
        LET idx == FindAsset(release.assets, asset_name) IN
        IF idx = 0
        THEN [ret |-> Err("no asset found matching " \o asset_name),
              events |-> e1, cached |-> cached, files |-> files,
              branch |-> "no_asset", release |-> release]
        ELSE
        LET asset == release.assets[idx]
            binary_path == BinaryPathOf(release.version)
            e2 == e1 \o <<EvStatus("Downloading"),
                          EvDownload(asset.download_url, binary_path)>>
        IN  IF ~DownloadOk(files, binary_path, dl)
            THEN [ret |-> Err(DownloadError(DownloadErr)),
                  events |-> e2,
                  cached |-> CachedAfter("download_err", cached, binary_path),
                  files |-> files, branch |-> "download_err",
                  release |-> release]
            ELSE
            LET files2 == FilesAfterDownload(files, binary_path)
                e3 == e2 \o <<EvChmod(binary_path)>>
            IN  IF chmod # "ok"
                THEN [ret |-> Err(ChmodErr), events |-> e3,
                      cached |-> CachedAfter("chmod_err", cached, binary_path),
                      files |-> files2, branch |-> "chmod_err",
                      release |-> release]
                ELSE [ret |-> Ok(binary_path), events |-> e3,
                      cached |-> CachedAfter("fetched", cached, binary_path),
                      files |-> files2, branch |-> "fetched",
                      release |-> release]

\* language_server_binary consulting the cache before the search path, and
\* storing the search path's answer in the cache.
LanguageServerBinary_CacheFirst(cached, files, os, arch, release, dl, chmod) ==
    IF CacheValid(cached, files)
    THEN [ret |-> Ok(cached), events |-> <<>>, cached |-> cached,
          files |-> files, branch |-> "cache", release |-> None]
    ELSE IF Which(files) # None
    THEN [ret |-> Ok(Which(files)), events |-> <<>>, cached |-> cached,
          files |-> files, branch |-> "path", release |-> None]
    ELSE RemoteFetch(cached, files, os, arch, release, dl, chmod)

LanguageServerBinary_CachesPath(cached, files, os, arch, release, dl, chmod) ==
    IF Which(files) # None
    THEN [ret |-> Ok(Which(files)), events |-> <<>>, cached |-> Which(files),
          files |-> files, branch |-> "path", release |-> None]
    ELSE IF CacheValid(cached, files)
    THEN [ret |-> Ok(cached), events |-> <<>>, cached |-> cached,
          files |-> files, branch |-> "cache", release |-> None]
    ELSE RemoteFetch(cached, files, os, arch, release, dl, chmod)

\* lib.rs:31-101
LanguageServerBinary(cached, files, os, arch, release, dl, chmod) ==
    IF Which(files) # None
    THEN [ret |-> Ok(Which(files)), events |-> <<>>, cached |-> cached,
          files |-> files, branch |-> "path", release |-> None]
    ELSE IF CacheValid(cached, files)
    THEN [ret |-> Ok(cached), events |-> <<>>, cached |-> cached,
          files |-> files, branch |-> "cache", release |-> None]
    ELSE RemoteFetch(cached, files, os, arch, release, dl, chmod)

\* CommandOf without the "lsp" argument.
CommandOf_NoArgs(binary_path) ==
    [command |-> binary_path, args |-> <<>>, env |-> {}]

\* lib.rs:22-26: the command built around a resolved path.
CommandOf(binary_path) ==
    [command |-> binary_path, args |-> <<"lsp">>, env |-> {}]

(***************************************************************************)
(* State.                                                                  *)
(***************************************************************************)
VARIABLES
    cached_binary_path, \* CemExtension.cached_binary_path
    files,              \* the file system: path -> "absent" | "file" | "dir"
    platform,           \* what current_platform reports: <<os, arch>>
    last,               \* the most recent language_server_command call
    prev,               \* the branch and the path returned by the call before it
    installed           \* the paths some call so far downloaded and made executable

vars == <<cached_binary_path, files, platform, last, prev, installed>>

NoCall == [branch |-> "none"]

\* The branch a recorded call took and the path it returned, if any.
Summary(call) ==
    [branch |-> call.branch,
     path |-> IF call.branch # "none" /\ call.result.ok
              THEN call.result.value.command ELSE None]

\* lib.rs:9-13: new() leaves the cache empty; nothing has been downloaded.
Init ==
    /\ cached_binary_path = None
    /\ files \in [AllPaths -> {"absent", "file"}]
    /\ \A p \in LocalPaths : files[p] = "absent"
    /\ platform \in Os \X Architecture
    /\ last = NoCall
    /\ prev = Summary(NoCall)
    /\ installed = {}

\* The kind of file at a path that may be None.
KindAt(fs, path) == IF path = None THEN "absent" ELSE fs[path]

\* The paths an outcome names: the one it returns and the ones it handed to
\* download_file and make_file_executable.
Named(r) ==
    (IF r.ret.ok THEN {r.ret.value} ELSE {}) \cup
    { r.events[i][3] : i \in { j \in 1..Len(r.events) :
                                  r.events[j][1] = "download_file" } }

\* lib.rs:90-97: the paths for which both download_file and
\* make_file_executable succeeded in an outcome: the call got past both.
InstalledBy(r) ==
    IF r.ret.ok
    THEN { r.events[i][2] : i \in { j \in 1..Len(r.events) :
                                      r.events[j][1] = "make_file_executable" } }
    ELSE {}

\* What the collaborators may answer in one call: the release query, the
\* download and the permission change.
Answers(releases) ==
    [release : releases, dl : {"ok", "fail"}, chmod : {"ok", "fail"}]

\* lib.rs:15-27: one call of language_server_command by the host.  The
\* record of the call keeps what the host answered and what the file system
\* held when the call started and when it returned.
Call(releases) ==
    \E r \in { LanguageServerBinary(cached_binary_path, files, platform[1],
                                    platform[2], a.release, a.dl, a.chmod) :
                a \in Answers(releases) } :
        /\ cached_binary_path' = r.cached
        /\ files' = r.files
        /\ last' = [branch |-> r.branch,
                    result |-> IF r.ret.ok THEN Ok(CommandOf(r.ret.value))
                               ELSE r.ret,
                    events |-> r.events,
                    which |-> Which(files),
                    cachedBefore |-> cached_binary_path,
                    cachedKind |-> KindAt(files, cached_binary_path),
                    kindAtReturn |-> [p \in Named(r) |-> r.files[p]],
                    created |-> { p \in AllPaths : r.files[p] # files[p] },
                    release |-> r.release]
        /\ prev' = Summary(last)
        /\ installed' = installed \cup InstalledBy(r)
        /\ UNCHANGED platform

\* The world outside the resolver: a path of the working directory is
\* removed, replaced by a file or replaced by a directory.
ExternalRemove ==
    \E p \in LocalPaths :
        /\ files[p] # "absent"
        /\ files' = [files EXCEPT ![p] = "absent"]
        /\ UNCHANGED <<cached_binary_path, platform, last, prev, installed>>

ExternalMkdir ==
    \E p \in LocalPaths :
        /\ files[p] = "absent"
        /\ files' = [files EXCEPT ![p] = "dir"]
        /\ UNCHANGED <<cached_binary_path, platform, last, prev, installed>>

\* The user installs cem on the search path, or removes it.
InstallOnPath ==
    /\ files[HostPath] = "absent"
    /\ files' = [files EXCEPT ![HostPath] = "file"]
    /\ UNCHANGED <<cached_binary_path, platform, last, prev, installed>>

RemoveFromPath ==
    /\ files[HostPath] = "file"
    /\ files' = [files EXCEPT ![HostPath] = "absent"]
    /\ UNCHANGED <<cached_binary_path, platform, last, prev, installed>>

LanguageServerCommand == Call(Releases)

Next ==
    \/ LanguageServerCommand
    \/ ExternalRemove
    \/ ExternalMkdir
    \/ InstallOnPath
    \/ RemoveFromPath

Spec == Init /\ [][Next]_vars

\* The asset selection on its own: every platform against releases that
\* carry an asset for every operating system and architecture name.
FirstCall == last = NoCall /\ Call(PlatformReleases)

SpecAssets == Init /\ [][FirstCall]_vars

(***************************************************************************)
(* Properties of one call, read from its record.                           *)
(***************************************************************************)
Called == last.branch # "none"
Succeeded == Called /\ last.result.ok
Failed == Called /\ ~last.result.ok
ReturnedPath == last.result.value.command

\* The host calls of the recorded call with the given name.
EventsNamed(op) == { i \in 1..Len(last.events) : last.events[i][1] = op }

PathMiss == Called /\ last.which = None
CacheWasValid == last.cachedBefore # None /\ last.cachedKind = "file"
CacheWasStale == last.cachedBefore # None /\ last.cachedKind # "file"

\* C1: when the PATH lookup finds a path the call returns exactly that path,
\* makes no host call at all (no notification, no release query, no download,
\* no make-executable) and leaves the cached path as it was, whatever the
\* cache held.
C1_PathShortCircuits ==
    (Called /\ last.which # None) =>
        /\ last.result.ok
        /\ ReturnedPath = last.which
        /\ last.events = <<>>
        /\ cached_binary_path = last.cachedBefore
        /\ cached_binary_path # last.which

\* A PATH hit while the cache held a valid path.
C1_Witness ==
    Called /\ last.which # None /\ CacheWasValid /\ last.branch = "path"

\* C2: with no PATH match and a cached path that names a regular file, the
\* call returns the cached path and makes no host call.
C2_CacheHit ==
    (PathMiss /\ CacheWasValid) =>
        /\ last.result.ok
        /\ ReturnedPath = last.cachedBefore
        /\ last.events = <<>>

C2_Witness == PathMiss /\ CacheWasValid /\ last.branch = "cache"

\* C3: with no PATH match and a cached path that is missing or not a regular
\* file, the call does not answer from the cache: it announces the update
\* check and queries the latest release.
C3_StaleCacheFallsThrough ==
    (PathMiss /\ CacheWasStale) =>
        /\ last.branch # "cache"
        /\ Len(last.events) >= 2
        /\ last.events[1] =
             <<"set_language_server_installation_status", "CheckingForUpdate">>
        /\ last.events[2][1] = "latest_github_release"

\* A stale cache entry that is a directory.
C3_Witness ==
    PathMiss /\ CacheWasStale /\ last.cachedKind = "dir"
        /\ EventsNamed("latest_github_release") # {}

\* C4 as stated: the call after one that succeeded through a fresh download
\* returns the path of that download and makes no host call, provided the
\* file is still a regular file.
C4_Original ==
    (Called /\ prev.branch = "fetched") =>
        /\ last.cachedBefore = prev.path
        /\ last.cachedKind = "file" =>
              /\ last.result.ok
              /\ ReturnedPath = prev.path
              /\ last.events = <<>>

\* C4 amended: the call after a fresh download finds the path of that
\* download in the cache; if the file is still a regular file the call makes
\* no host call, and it returns the cached path provided the PATH lookup
\* still finds nothing.
C4_SecondCallUsesCache ==
    (Called /\ prev.branch = "fetched") =>
        /\ last.cachedBefore = prev.path
        /\ last.cachedKind = "file" =>
              /\ last.result.ok
              /\ last.events = <<>>
              /\ last.which = None => ReturnedPath = prev.path

C4_Witness ==
    /\ Called /\ prev.branch = "fetched" /\ last.cachedKind = "file"
    /\ last.which = None /\ last.branch = "cache"
    /\ ReturnedPath = prev.path

\* C5: whenever a call returns a path, by a PATH hit, a cache hit or a fresh
\* download, a regular file stands at that path when the call returns.
C5_ReturnedPathIsFile ==
    Succeeded => last.kindAtReturn[ReturnedPath] = "file"

\* A cache hit on a file that the failed call before it had downloaded anew.
C5_Witness ==
    Succeeded /\ last.branch = "cache" /\ prev.branch = "chmod_err"
        /\ last.kindAtReturn[ReturnedPath] = "file"

\* The asset name the claims expect for each platform.
ExpectedAssetName ==
    CASE platform = <<"Mac", "Aarch64">> -> "cem-darwin-arm64"
      [] platform = <<"Mac", "X8664">> -> "cem-darwin-amd64"
      [] platform = <<"Mac", "X86">> -> "cem-darwin-amd64"
      [] platform = <<"Linux", "Aarch64">> -> "cem-linux-arm64"
      [] platform = <<"Linux", "X8664">> -> "cem-linux-amd64"
      [] platform = <<"Linux", "X86">> -> "cem-linux-amd64"
      [] platform = <<"Windows", "Aarch64">> -> "cem-windows-arm64"
      [] platform = <<"Windows", "X8664">> -> "cem-windows-amd64"
      [] platform = <<"Windows", "X86">> -> "cem-windows-amd64"

\* The recorded call queried the latest release and got one.
GotRelease ==
    Called /\ EventsNamed("latest_github_release") # {} /\ last.release.ok

\* The assets of that release that carry the expected name.
Matching ==
    { i \in 1..Len(last.release.assets) :
        last.release.assets[i].name = ExpectedAssetName }

\* C6: when the release carries no asset named exactly as expected for the
\* platform, the call fails with "no asset found matching <name>", announces
\* no download, downloads nothing, makes nothing executable and leaves the
\* cached path as it was.
C6_NoAssetFails ==
    (GotRelease /\ Matching = {}) =>
        /\ Failed
        /\ last.result.err = "no asset found matching " \o ExpectedAssetName
        /\ <<"set_language_server_installation_status", "Downloading">>
              \notin { last.events[i] : i \in 1..Len(last.events) }
        /\ EventsNamed("download_file") = {}
        /\ EventsNamed("make_file_executable") = {}
        /\ cached_binary_path = last.cachedBefore

\* The release carries only a checksum file whose name starts with the
\* expected name.
C6_Witness ==
    /\ GotRelease /\ Matching = {} /\ Failed
    /\ platform = <<"Linux", "X8664">>
    /\ \E i \in 1..Len(last.release.assets) :
          last.release.assets[i].name = "cem-linux-amd64.sha256"

\* C7: for every platform, a download happens exactly when the release
\* carries an asset with the expected name, and it fetches the URL of that
\* asset.
C7_AssetSelection ==
    GotRelease =>
        /\ (Matching # {}) = (EventsNamed("download_file") # {})
        /\ \A e \in EventsNamed("download_file") :
              \E i \in Matching :
                  last.events[e][2] = last.release.assets[i].download_url

\* 32-bit x86 on Linux, offered the Mac and the Linux asset, fetches the
\* Linux amd64 one.
C7_Witness ==
    /\ GotRelease
    /\ platform = <<"Linux", "X86">>
    /\ last.release.assets =
          << [name |-> "cem-darwin-arm64",
              download_url |-> "https://dl/cem-darwin-arm64"],
             [name |-> "cem-linux-amd64",
              download_url |-> "https://dl/cem-linux-amd64"] >>
    /\ \E e \in EventsNamed("download_file") :
          last.events[e][2] = "https://dl/cem-linux-amd64"

\* C8: a fresh fetch of version V downloads to "cem-" + V as an uncompressed
\* file, makes that same path executable and returns the command
\* {command: "cem-" + V, args: ["lsp"], env: {}}; every successful call, by
\* any branch, returns args ["lsp"] and an empty env.
C8_CommandShape ==
    /\ (PathMiss /\ last.cachedBefore = None /\ GotRelease /\ Matching # {}) =>
          LET dest == "cem-" \o last.release.version IN
          /\ Cardinality(EventsNamed("download_file")) = 1
          /\ \A e \in EventsNamed("download_file") :
                /\ last.events[e][3] = dest
                /\ last.events[e][4] = "Uncompressed"
          /\ \A e \in EventsNamed("make_file_executable") :
                last.events[e] = <<"make_file_executable", dest>>
          /\ Succeeded =>
                /\ EventsNamed("make_file_executable") # {}
                /\ last.result.value =
                      [command |-> dest, args |-> <<"lsp">>, env |-> {}]
                /\ last.release.version = "v1.2.3" =>
                      last.result.value.command = "cem-v1.2.3"
          /\ Failed =>
                last.result.err \in
                    { "failed to download file: connection reset",
                      "permission denied" }
    /\ Succeeded =>
          /\ last.result.value.args = <<"lsp">>
          /\ last.result.value.env = {}

\* Empty PATH, empty cache, release v1.2.3 with a matching asset.
C8_Witness ==
    /\ Succeeded /\ EventsNamed("download_file") # {}
    /\ last.which = None /\ last.cachedBefore = None
    /\ last.release.version = "v1.2.3"
    /\ last.result.value =
          [command |-> "cem-v1.2.3", args |-> <<"lsp">>, env |-> {}]

\* C9: the cached path starts empty and changes only in a call whose
\* download succeeded; a PATH hit, a cache hit and every failed call leave
\* it as it was.
C9_CacheFrame ==
    /\ ~Called => cached_binary_path = None
    /\ Called =>
          /\ cached_binary_path # last.cachedBefore =>
                /\ Succeeded
                /\ EventsNamed("download_file") # {}
                /\ cached_binary_path = ReturnedPath
          /\ (last.branch \in {"path", "cache"} \/ Failed) =>
                cached_binary_path = last.cachedBefore

\* A fetch that replaced a stale entry by the path of another version.
C9_Witness ==
    /\ Called /\ last.branch = "fetched"
    /\ last.cachedBefore # None
    /\ cached_binary_path # last.cachedBefore

\* C10 as stated: a failed download or make-executable aborts the call with
\* an error, and a call that ends in an error has written nothing: no file
\* of this call stands at the download destination.
C10_Original ==
    /\ (Called /\ last.branch \in {"download_err", "chmod_err"}) => Failed
    /\ Failed =>
          /\ cached_binary_path = last.cachedBefore
          /\ last.created = {}

\* C10 amended: a failed download or make-executable aborts the call with an
\* error and leaves the cached path as it was; a call that fails before the
\* download has written nothing; but when make-executable fails, the file
\* the download wrote stays at the destination: nothing rolls it back.
C10_NoRollback ==
    /\ (Called /\ last.branch \in {"download_err", "chmod_err"}) =>
          /\ Failed
          /\ cached_binary_path = last.cachedBefore
    /\ (Called /\ last.branch \in {"release_err", "no_asset"}) =>
          /\ Failed
          /\ last.created = {}
          /\ cached_binary_path = last.cachedBefore
    /\ (Called /\ EventsNamed("make_file_executable") # {} /\ Failed) =>
          \A e \in EventsNamed("download_file") :
              last.kindAtReturn[last.events[e][3]] = "file"

\* make-executable failed on a file this call created.
C10_Witness ==
    /\ Failed /\ last.branch = "chmod_err"
    /\ last.created # {}
    /\ cached_binary_path = last.cachedBefore

\* The recorded call ended where the named step failed.
FailedAt(step) == Called /\ last.branch = step

\* C11: every failure of the remote fetch ends the call with an error and no
\* later step runs: a release-query error is returned as the collaborator
\* gave it, a download error is returned behind "failed to download file: ",
\* a make-executable error is returned as given; and one call issues at most
\* one release query, one download and one make-executable call.
C11_FailuresAreFatal ==
    Called =>
        /\ Cardinality(EventsNamed("latest_github_release")) <= 1
        /\ Cardinality(EventsNamed("download_file")) <= 1
        /\ Cardinality(EventsNamed("make_file_executable")) <= 1
        /\ FailedAt("release_err") =>
              /\ Failed
              /\ last.result.err = last.release.err
              /\ last.events[Len(last.events)][1] = "latest_github_release"
              /\ EventsNamed("download_file") = {}
              /\ EventsNamed("make_file_executable") = {}
        /\ FailedAt("download_err") =>
              /\ Failed
              /\ last.result.err = "failed to download file: connection reset"
              /\ last.events[Len(last.events)][1] = "download_file"
              /\ EventsNamed("make_file_executable") = {}
        /\ FailedAt("chmod_err") =>
              /\ Failed
              /\ last.result.err = "permission denied"
              /\ last.events[Len(last.events)][1] = "make_file_executable"
              /\ cached_binary_path = last.cachedBefore
        /\ (Called /\ EventsNamed("latest_github_release") # {}
                /\ ~last.release.ok) => Failed

\* A download that failed: the call ends there with the wrapped message.
C11_Witness ==
    /\ FailedAt("download_err") /\ Failed
    /\ last.result.err = "failed to download file: connection reset"
    /\ EventsNamed("make_file_executable") = {}

\* The host calls of a complete remote fetch, by name, in the order the
\* claim gives them.
FetchOrder ==
    << "set_language_server_installation_status", "latest_github_release",
       "set_language_server_installation_status", "download_file",
       "make_file_executable" >>

\* C12: the host calls of a call that reaches the remote fetch are a prefix
\* of: CheckingForUpdate notification, release query (require_assets true,
\* pre_release false, on bennypowers/cem), Downloading notification,
\* download, make-executable.  The Downloading notification comes only after
\* a matching asset was found, the cache is written only after
\* make-executable succeeded, and the call returns only after all of them.
C12_StepOrder ==
    Called =>
        LET n == Len(last.events) IN
        /\ n \in {0, 2, 4, 5}
        /\ \A i \in 1..n : last.events[i][1] = FetchOrder[i]
        /\ n = 0 <=> (last.which # None \/ CacheWasValid)
        /\ n >= 2 =>
              /\ last.events[1][2] = "CheckingForUpdate"
              /\ last.events[2] =
                    << "latest_github_release", "bennypowers/cem",
                       [require_assets |-> TRUE, pre_release |-> FALSE] >>
        /\ n >= 4 =>
              /\ last.release.ok /\ Matching # {}
              /\ last.events[3][2] = "Downloading"
        /\ n = 5 => last.events[5][2] = last.events[4][3]
        /\ cached_binary_path # last.cachedBefore => (n = 5 /\ Succeeded)
        /\ (Succeeded /\ n > 0) =>
              (n = 5 /\ cached_binary_path = ReturnedPath)

\* A complete fetch: all five host calls, then the cache write and the
\* return.
C12_Witness ==
    /\ Succeeded /\ Len(last.events) = 5
    /\ last.cachedBefore # cached_binary_path
    /\ cached_binary_path = ReturnedPath

\* The call before the recorded one failed in the remote fetch.
PrevFetchFailed ==
    prev.branch \in {"release_err", "no_asset", "download_err", "chmod_err"}

\* C13: a stale cache entry is never cleared.  A call that finds it stale
\* and fails in the remote fetch leaves the same value in the cache; a later
\* call with no PATH match and the file still not a regular file enters the
\* remote fetch again; the entry changes only in a call whose remote fetch
\* succeeded, to the path that call returns.
C13_StaleEntryKept ==
    Called =>
        /\ last.cachedBefore # None => cached_binary_path # None
        /\ (PathMiss /\ CacheWasStale /\ Failed) =>
              cached_binary_path = last.cachedBefore
        /\ (PathMiss /\ CacheWasStale) =>
              /\ EventsNamed("latest_github_release") # {}
              /\ last.events[1][2] = "CheckingForUpdate"
        /\ (last.cachedBefore # None
                /\ cached_binary_path # last.cachedBefore) =>
              /\ Succeeded
              /\ EventsNamed("make_file_executable") # {}
              /\ cached_binary_path = ReturnedPath
              /\ cached_binary_path = "cem-" \o last.release.version

\* Two calls in a row found the same entry stale and failed in the download.
C13_Witness ==
    /\ PrevFetchFailed /\ prev.branch = "download_err"
    /\ PathMiss /\ CacheWasStale /\ Failed
    /\ last.branch = "download_err"
    /\ cached_binary_path = last.cachedBefore

\* C14: over any sequence of calls the cached path is empty or is "cem-" + V
\* for a version V whose download and make-executable both succeeded in an
\* earlier call; once a path was stored the cache is never empty again; and
\* it never holds the path the PATH lookup gives.
C14_CacheHoldsInstalledPath ==
    /\ cached_binary_path # None =>
          /\ cached_binary_path \in installed
          /\ \E v \in {"v1.2.3", "v1.3.0"} : cached_binary_path = "cem-" \o v
          /\ cached_binary_path # "/usr/local/bin/cem"
    /\ installed # {} => cached_binary_path # None
    /\ \A p \in installed : \E v \in {"v1.2.3", "v1.3.0"} : p = "cem-" \o v

\* Two versions were installed in turn; the cache holds the later one while
\* the call just made answered from PATH.
C14_Witness ==
    /\ Cardinality(installed) = 2
    /\ cached_binary_path \in installed
    /\ Called /\ last.which # None /\ Succeeded

\* C15: the PATH lookup comes before a valid cache on every call.  The call
\* after a fresh download returns the PATH path, not the cached one, when cem
\* is on PATH by then, makes no host call and keeps the cache; and the call
\* after a PATH hit returns the cached path again when cem has left PATH and
\* the cached file is still a regular file.
C15_PathBeforeCache ==
    Called =>
        /\ (prev.branch = "fetched" /\ last.which # None) =>
              /\ Succeeded
              /\ ReturnedPath = last.which
              /\ ReturnedPath # prev.path
              /\ last.events = <<>>
              /\ cached_binary_path = prev.path
        /\ (last.which # None /\ CacheWasValid) =>
              /\ Succeeded
              /\ ReturnedPath = last.which
              /\ ReturnedPath # last.cachedBefore
        /\ (prev.branch = "path" /\ PathMiss /\ CacheWasValid) =>
              /\ Succeeded
              /\ ReturnedPath = last.cachedBefore
              /\ ReturnedPath # prev.path
              /\ last.events = <<>>

\* cem was on PATH at the call before and has left it: the call answers from
\* the cache, which still holds the path installed earlier.
C15_Witness ==
    /\ Called /\ prev.branch = "path" /\ PathMiss /\ CacheWasValid
    /\ ReturnedPath = last.cachedBefore
    /\ last.cachedBefore \in installed

\* The call right after a fresh download answers from PATH.
C15_WitnessPathAfterFetch ==
    /\ Called /\ prev.branch = "fetched" /\ last.which # None
    /\ ReturnedPath = last.which
    /\ cached_binary_path = prev.path

=============================================================================
